---------------------------- MODULE Spec2Model ----------------------------
(***************************************************************************)
(* A model of simple-container.c: a Launcher (main) that clones an         *)
(* Isolation Bootstrap (child_func) into new UTS/PID/mount/network         *)
(* namespaces, waits for it and then lazily unmounts what may be left on   *)
(* the host.  Several launches run side by side on one host; every system  *)
(* call of main and of child_func is one atomic step.                      *)
(***************************************************************************)
EXTENDS Integers, Sequences, FiniteSets

(***************************************************************************)
(* Bounds of the model.                                                    *)
(***************************************************************************)
\* number of host-only environment variables a launcher may be started with
MaxHostVars == 1
\* the workload exits with a status in 0..MaxStatus
MaxStatus == 2

(***************************************************************************)
(* Program constants.                                                      *)
(***************************************************************************)
\* exit(EXIT_FAILURE)
EXIT_FAILURE == 1
\* Variant of ExecFailStatus: a status of its own for the failed execv
ExecFailStatus_Distinct == EXIT_FAILURE + 1
\* "return 1" after a failed execv
ExecFailStatus == 1
\* "return 0" at the end of main
MainSuccess == 0
\* clone() returns -1 on failure
CloneFailed == -1
\* waitpid() returns -1 on failure
WaitFailed == -1

\* the launches that run side by side on the host
Launchers == {1, 2}
\* namespace 0 is the host's own namespace (of every kind)
HostNs == 0
Namespaces == {HostNs} \cup Launchers

\* "status not yet defined": the process has not terminated
NoStatus == -1
\* pid before clone() has returned
NoPid == 0

RootPath == "/tmp/mycontainer_root"
ProcPath == "/tmp/mycontainer_root/proc"
HostProcPath == "/proc"
HostRoot == "/"
HostCwd == "(the launcher's working directory)"
ContainerHostname == "mycontainer"
HostHostname == "host"

\* Variant of CloneFlags: CLONE_NEWUTS twice, CLONE_NEWNET forgotten
CloneFlags_NoNet ==
    {"CLONE_NEWUTS", "CLONE_NEWPID", "CLONE_NEWNS", "SIGCHLD"}

\* Variant of CloneFlags: CLONE_NEWNS forgotten
CloneFlags_NoMountNs ==
    {"CLONE_NEWUTS", "CLONE_NEWPID", "CLONE_NEWNET", "SIGCHLD"}

\* Variant of CloneFlags: CLONE_NEWUTS forgotten
CloneFlags_NoUts ==
    {"CLONE_NEWPID", "CLONE_NEWNS", "CLONE_NEWNET", "SIGCHLD"}

\* int flags = CLONE_NEWUTS | CLONE_NEWPID | CLONE_NEWNS | CLONE_NEWNET | SIGCHLD
CloneFlags ==
    {"CLONE_NEWUTS", "CLONE_NEWPID", "CLONE_NEWNS", "CLONE_NEWNET", "SIGCHLD"}
NamespaceFlags ==
    {"CLONE_NEWUTS", "CLONE_NEWPID", "CLONE_NEWNS", "CLONE_NEWNET"}

\* the library and system calls of child_func, in program order
BootstrapCalls ==
    << "mount_private", "sethostname", "chroot", "chdir", "mount_proc",
       "clearenv", "setenv_PATH", "setenv_HOME", "setenv_TERM", "execv" >>

\* the three variables child_func sets, with their literal values
PathVar == << "PATH", "/bin:/usr/bin" >>
HomeVar == << "HOME", "/" >>
TermVar == << "TERM", "xterm" >>
Allowlist == {PathVar, HomeVar, TermVar}

\* the environment of the host: a PATH of its own and some host-only variables
HostVarSeq == << "SECRET", "LANG", "EDITOR", "SSH_AUTH_SOCK" >>
HostOnlyVars == { << HostVarSeq[k], "hostvalue" >> : k \in 1..MaxHostVars }
HostPathVar == << "PATH", "/usr/local/sbin:/usr/local/bin" >>
HostEnvs == { {HostPathVar} \cup S : S \in SUBSET HostOnlyVars }

WorkloadStatuses == 0..MaxStatus

VARIABLES
    lpc,        \* Launcher: the call main is about to make
    lexit,      \* Launcher: exit status of main, NoStatus while running
    pid,        \* Launcher: what clone() returned
    wres,       \* Launcher: what waitpid() returned (NoPid: not called)
    umounts,    \* Launcher: the umount2 calls made so far, with their results
    warned,     \* Launcher: perror("umount failed ...") was reported
    henv,       \* Launcher: the environment main was started with
    cpc,        \* Isolated process: the call child_func is about to make
    cstatus,    \* Isolated process: exit status, NoStatus while running
    calls,      \* Isolated process: the calls made so far, with their results
    cns,        \* Isolated process: the namespaces clone() created for it
    cenv,       \* Isolated process: its environment
    croot,      \* Isolated process: its root directory
    ccwd,       \* Isolated process: its working directory
    mounts,     \* per mount namespace: mount points at or below RootPath, /proc
    shared,     \* per mount namespace: the tree is in the host's peer group
    hostname    \* per UTS namespace: the hostname

launcherVars == << lpc, lexit, pid, wres, umounts, warned, henv >>
childVars == << cpc, cstatus, calls, cns, cenv, croot, ccwd >>
kernelVars == << mounts, shared, hostname >>
vars == << lpc, lexit, pid, wres, umounts, warned, henv,
           cpc, cstatus, calls, cns, cenv, croot, ccwd,
           mounts, shared, hostname >>

(***************************************************************************)
(* Kernel helpers.                                                         *)
(***************************************************************************)
\* the mount namespace the isolated process i lives in
MntNs(i) == IF "CLONE_NEWNS" \in cns[i] THEN i ELSE HostNs
\* the UTS namespace the isolated process i lives in
UtsNs(i) == IF "CLONE_NEWUTS" \in cns[i] THEN i ELSE HostNs

\* the isolated process i is running (bootstrap or workload)
Alive(i) == cpc[i] \notin {"none", "zombie", "reaped"}

\* a mount namespace that exists: the host's, or that of a live process
NsExists(n) == n = HostNs \/ Alive(n)

\* mount and umount events in namespace n reach namespace m
Propagates(n, m) ==
    m = n \/ (shared[n] /\ shared[m] /\ NsExists(m))

\* "/proc" as the isolated process i resolves it
ResolveProc(i) == IF croot[i] = RootPath THEN ProcPath ELSE HostProcPath

\* what a detached unmount of path p removes: p and every mount below it
Below(p) == IF p = RootPath THEN {RootPath, ProcPath} ELSE {p}

\* the path is a pair <<name, value>>; setenv(name, value, 1) overwrites
Setenv(e, var) == { v \in e : v[1] # var[1] } \cup {var}

Names(e) == { v[1] : v \in e }


\* mount(2) of path p in mount namespace n, with propagation to its peers
DoMount(n, p) ==
    [m \in Namespaces |->
        IF Propagates(n, m) THEN mounts[m] \cup {p} ELSE mounts[m]]

\* umount2(p, MNT_DETACH) in mount namespace n, with propagation to its peers
DoUmount(n, p) ==
    [m \in Namespaces |->
        IF Propagates(n, m) THEN mounts[m] \ Below(p) ELSE mounts[m]]

(***************************************************************************)
(* The initial state: no launcher has called clone() yet.  The host may    *)
(* have the root image mounted at RootPath (or have it as a plain          *)
(* directory), may have a proc left mounted below it, and has its mount    *)
(* tree either shared (the systemd default) or private.                    *)
(***************************************************************************)
Init ==
    /\ lpc = [i \in Launchers |-> "clone"]
    /\ lexit = [i \in Launchers |-> NoStatus]
    /\ pid = [i \in Launchers |-> NoPid]
    /\ wres = [i \in Launchers |-> NoPid]
    /\ umounts = [i \in Launchers |-> << >>]
    /\ warned = [i \in Launchers |-> FALSE]
    /\ henv \in [Launchers -> HostEnvs]
    /\ cpc = [i \in Launchers |-> "none"]
    /\ cstatus = [i \in Launchers |-> NoStatus]
    /\ calls = [i \in Launchers |-> << >>]
    /\ cns = [i \in Launchers |-> {}]
    /\ cenv = [i \in Launchers |-> {}]
    /\ croot = [i \in Launchers |-> HostRoot]
    /\ ccwd = [i \in Launchers |-> HostCwd]
    /\ \E hm \in SUBSET {RootPath, ProcPath} :
          mounts = [n \in Namespaces |->
                       IF n = HostNs THEN {HostProcPath} \cup hm ELSE {}]
    /\ \E hs \in BOOLEAN :
          shared = [n \in Namespaces |-> n = HostNs /\ hs]
    /\ hostname = [n \in Namespaces |->
                      IF n = HostNs THEN HostHostname ELSE ""]

(***************************************************************************)
(* The Launcher: main.                                                     *)
(***************************************************************************)
\* the pid clone() returns for launcher i's child (positive)
ChildPid(i) == i

\* Variant of Clone: the result of clone is not checked, main goes on to wait
Clone_Unchecked(i) ==
    /\ lpc[i] = "clone"
    /\ \E ok \in BOOLEAN :
        /\ pid' = [pid EXCEPT ![i] = IF ok THEN ChildPid(i) ELSE CloneFailed]
        /\ lpc' = [lpc EXCEPT ![i] = "waitpid"]
        /\ cpc' = [cpc EXCEPT ![i] = IF ok THEN BootstrapCalls[1] ELSE "zombie"]
        /\ cns' = [cns EXCEPT ![i] = IF ok THEN NamespaceFlags ELSE @]
        /\ cenv' = [cenv EXCEPT ![i] = IF ok THEN henv[i] ELSE @]
        /\ mounts' = [mounts EXCEPT ![i] = IF ok THEN mounts[HostNs] ELSE @]
        /\ shared' = [shared EXCEPT ![i] = IF ok THEN shared[HostNs] ELSE @]
        /\ hostname' = [hostname EXCEPT ![i] = IF ok THEN hostname[HostNs] ELSE @]
        /\ UNCHANGED << lexit, wres, umounts, warned, henv,
                        cstatus, calls, croot, ccwd >>

\* pid_t pid = clone(child_func, child_stack + STACK_SIZE, flags, NULL);
\* if (pid == -1) { perror("clone failed"); exit(EXIT_FAILURE); }
Clone(i) ==
    /\ lpc[i] = "clone"
    /\ \E ok \in BOOLEAN :
        IF ok
        THEN /\ pid' = [pid EXCEPT ![i] = ChildPid(i)]
             /\ lpc' = [lpc EXCEPT ![i] = "waitpid"]
             /\ cpc' = [cpc EXCEPT ![i] = BootstrapCalls[1]]
             /\ cns' = [cns EXCEPT ![i] = CloneFlags \cap NamespaceFlags]
             /\ cenv' = [cenv EXCEPT ![i] = henv[i]]
             /\ mounts' = [mounts EXCEPT ![i] =
                              IF "CLONE_NEWNS" \in CloneFlags
                              THEN mounts[HostNs] ELSE @]
             /\ shared' = [shared EXCEPT ![i] =
                              IF "CLONE_NEWNS" \in CloneFlags
                              THEN shared[HostNs] ELSE @]
             /\ hostname' = [hostname EXCEPT ![i] =
                                IF "CLONE_NEWUTS" \in CloneFlags
                                THEN hostname[HostNs] ELSE @]
             /\ UNCHANGED << lexit, wres, umounts, warned, henv,
                             cstatus, calls, croot, ccwd >>
        ELSE /\ pid' = [pid EXCEPT ![i] = CloneFailed]
             /\ lpc' = [lpc EXCEPT ![i] = "done"]
             /\ lexit' = [lexit EXCEPT ![i] = EXIT_FAILURE]
             /\ UNCHANGED << wres, umounts, warned, henv >>
             /\ UNCHANGED childVars
             /\ UNCHANGED kernelVars

\* Variant of WaitpidOk: WNOHANG, the call returns whether or not the child
\* has terminated
WaitpidOk_NoHang(i) ==
    /\ lpc[i] = "waitpid"
    /\ cpc' = [cpc EXCEPT ![i] = IF @ = "zombie" THEN "reaped" ELSE @]
    /\ wres' = [wres EXCEPT ![i] = pid[i]]
    /\ lpc' = [lpc EXCEPT ![i] = "umount_proc"]
    /\ UNCHANGED << lexit, pid, umounts, warned, henv >>
    /\ UNCHANGED << cstatus, calls, cns, cenv, croot, ccwd >>
    /\ UNCHANGED kernelVars

\* waitpid(pid, NULL, 0) returns the pid: the child has terminated and is
\* reaped; its status is not read
WaitpidOk(i) ==
    /\ lpc[i] = "waitpid"
    /\ cpc[i] = "zombie"
    /\ cpc' = [cpc EXCEPT ![i] = "reaped"]
    /\ wres' = [wres EXCEPT ![i] = pid[i]]
    /\ lpc' = [lpc EXCEPT ![i] = "umount_proc"]
    /\ UNCHANGED << lexit, pid, umounts, warned, henv >>
    /\ UNCHANGED << cstatus, calls, cns, cenv, croot, ccwd >>
    /\ UNCHANGED kernelVars

\* Variant of WaitpidFail: after perror main falls through to the cleanup
WaitpidFail_ThenCleanup(i) ==
    /\ lpc[i] = "waitpid"
    /\ cpc[i] = "zombie"
    /\ cpc' = [cpc EXCEPT ![i] = "reaped"]
    /\ wres' = [wres EXCEPT ![i] = WaitFailed]
    /\ lpc' = [lpc EXCEPT ![i] = "umount_proc"]
    /\ UNCHANGED << lexit, pid, umounts, warned, henv >>
    /\ UNCHANGED << cstatus, calls, cns, cenv, croot, ccwd >>
    /\ UNCHANGED kernelVars

\* Variant of WaitpidFail: a signal handler is installed and the call fails
\* with EINTR while the child is still running
WaitpidFail_Interrupted(i) ==
    /\ lpc[i] = "waitpid"
    /\ cpc' = [cpc EXCEPT ![i] = IF @ = "zombie" THEN "reaped" ELSE @]
    /\ wres' = [wres EXCEPT ![i] = WaitFailed]
    /\ lpc' = [lpc EXCEPT ![i] = "done"]
    /\ lexit' = [lexit EXCEPT ![i] = EXIT_FAILURE]
    /\ UNCHANGED << pid, umounts, warned, henv >>
    /\ UNCHANGED << cstatus, calls, cns, cenv, croot, ccwd >>
    /\ UNCHANGED kernelVars

\* waitpid(pid, NULL, 0) == -1: with no signal handler installed the call
\* can only fail with ECHILD, after the kernel itself has reaped the
\* terminated child (SIGCHLD inherited as ignored);
\* perror("waitpid failed"); exit(EXIT_FAILURE);
WaitpidFail(i) ==
    /\ lpc[i] = "waitpid"
    /\ cpc[i] = "zombie"
    /\ cpc' = [cpc EXCEPT ![i] = "reaped"]
    /\ wres' = [wres EXCEPT ![i] = WaitFailed]
    /\ lpc' = [lpc EXCEPT ![i] = "done"]
    /\ lexit' = [lexit EXCEPT ![i] = EXIT_FAILURE]
    /\ UNCHANGED << pid, umounts, warned, henv >>
    /\ UNCHANGED << cstatus, calls, cns, cenv, croot, ccwd >>
    /\ UNCHANGED kernelVars

\* Variant of MainReturn: main hands on the status of the isolated process
MainReturn_Propagates(i) == cstatus[i]

\* printf("=> Container exited\n"); return 0;
\* the child's status was never read (waitpid's status argument is NULL)
MainReturn(i) == MainSuccess

\* umount2 of a path in the host's mount namespace succeeds exactly when the
\* path is a mount point there
UmountOk(p) == p \in mounts[HostNs]

\* Variant of UmountProc: a failed proc unmount aborts main
UmountProc_Aborts(i) ==
    /\ lpc[i] = "umount_proc"
    /\ umounts' = [umounts EXCEPT ![i] =
                      Append(@, [path |-> ProcPath, ok |-> UmountOk(ProcPath)])]
    /\ IF UmountOk(ProcPath)
       THEN /\ mounts' = DoUmount(HostNs, ProcPath)
            /\ lpc' = [lpc EXCEPT ![i] = "done"]
            /\ lexit' = [lexit EXCEPT ![i] = MainReturn(i)]
       ELSE /\ mounts' = mounts
            /\ lpc' = [lpc EXCEPT ![i] = "done"]
            /\ lexit' = [lexit EXCEPT ![i] = EXIT_FAILURE]
    /\ UNCHANGED << pid, wres, warned, henv, shared, hostname >>
    /\ UNCHANGED childVars

\* Variant of UmountProc: || instead of &&, the root unmount is attempted
\* after a successful proc unmount and skipped after a failed one
UmountProc_Or(i) ==
    /\ lpc[i] = "umount_proc"
    /\ umounts' = [umounts EXCEPT ![i] =
                      Append(@, [path |-> ProcPath, ok |-> UmountOk(ProcPath)])]
    /\ IF UmountOk(ProcPath)
       THEN /\ mounts' = DoUmount(HostNs, ProcPath)
            /\ lpc' = [lpc EXCEPT ![i] = "umount_root"]
            /\ lexit' = lexit
            /\ warned' = warned
       ELSE /\ mounts' = mounts
            /\ lpc' = [lpc EXCEPT ![i] = "done"]
            /\ lexit' = [lexit EXCEPT ![i] = MainReturn(i)]
            /\ warned' = [warned EXCEPT ![i] = TRUE]
    /\ UNCHANGED << pid, wres, henv, shared, hostname >>
    /\ UNCHANGED childVars

\* umount2("/tmp/mycontainer_root/proc", MNT_DETACH) != 0 && ...
\* on success the && short-circuits: printf; return 0
UmountProc(i) ==
    /\ lpc[i] = "umount_proc"
    /\ umounts' = [umounts EXCEPT ![i] =
                      Append(@, [path |-> ProcPath, ok |-> UmountOk(ProcPath)])]
    /\ IF UmountOk(ProcPath)
       THEN /\ mounts' = DoUmount(HostNs, ProcPath)
            /\ lpc' = [lpc EXCEPT ![i] = "done"]
            /\ lexit' = [lexit EXCEPT ![i] = MainReturn(i)]
       ELSE /\ mounts' = mounts
            /\ lpc' = [lpc EXCEPT ![i] = "umount_root"]
            /\ lexit' = lexit
    /\ UNCHANGED << pid, wres, warned, henv, shared, hostname >>
    /\ UNCHANGED childVars

\* Variant of UmountRoot: a failed cleanup ends main with exit(EXIT_FAILURE)
UmountRoot_Escalates(i) ==
    /\ lpc[i] = "umount_root"
    /\ umounts' = [umounts EXCEPT ![i] =
                      Append(@, [path |-> RootPath, ok |-> UmountOk(RootPath)])]
    /\ IF UmountOk(RootPath)
       THEN /\ mounts' = DoUmount(HostNs, RootPath)
            /\ warned' = warned
            /\ lexit' = [lexit EXCEPT ![i] = MainReturn(i)]
       ELSE /\ mounts' = mounts
            /\ warned' = [warned EXCEPT ![i] = TRUE]
            /\ lexit' = [lexit EXCEPT ![i] = EXIT_FAILURE]
    /\ lpc' = [lpc EXCEPT ![i] = "done"]
    /\ UNCHANGED << pid, wres, henv, shared, hostname >>
    /\ UNCHANGED childVars

\* Variant of UmountRoot: main repeats the root unmount until it succeeds
UmountRoot_Retries(i) ==
    /\ lpc[i] = "umount_root"
    /\ UmountOk(RootPath)
    /\ umounts' = [umounts EXCEPT ![i] =
                      Append(@, [path |-> RootPath, ok |-> TRUE])]
    /\ mounts' = DoUmount(HostNs, RootPath)
    /\ lpc' = [lpc EXCEPT ![i] = "done"]
    /\ lexit' = [lexit EXCEPT ![i] = MainReturn(i)]
    /\ UNCHANGED << pid, wres, warned, henv, shared, hostname >>
    /\ UNCHANGED childVars

\* ... && umount2("/tmp/mycontainer_root", MNT_DETACH) != 0
\* { perror("umount failed (may be okay if child cleaned up)"); }
\* printf("=> Container exited\n"); return 0;
UmountRoot(i) ==
    /\ lpc[i] = "umount_root"
    /\ umounts' = [umounts EXCEPT ![i] =
                      Append(@, [path |-> RootPath, ok |-> UmountOk(RootPath)])]
    /\ IF UmountOk(RootPath)
       THEN /\ mounts' = DoUmount(HostNs, RootPath)
            /\ warned' = warned
       ELSE /\ mounts' = mounts
            /\ warned' = [warned EXCEPT ![i] = TRUE]
    /\ lpc' = [lpc EXCEPT ![i] = "done"]
    /\ lexit' = [lexit EXCEPT ![i] = MainReturn(i)]
    /\ UNCHANGED << pid, wres, henv, shared, hostname >>
    /\ UNCHANGED childVars

(***************************************************************************)
(* The Isolation Bootstrap: child_func.                                    *)
(***************************************************************************)
\* child_func made the call, which returned success (ok) or failure
Called(i, call, ok) ==
    calls' = [calls EXCEPT ![i] = Append(@, [call |-> call, ok |-> ok])]

\* child_func goes on to its next call
Continue(i, next) ==
    /\ cpc' = [cpc EXCEPT ![i] = next]
    /\ cstatus' = cstatus

\* the process terminates with the status (exit, or return from child_func)
Terminate(i, status) ==
    /\ cpc' = [cpc EXCEPT ![i] = "zombie"]
    /\ cstatus' = [cstatus EXCEPT ![i] = status]

\* if (mount(NULL, "/", NULL, MS_REC | MS_PRIVATE, NULL) != 0)
\*     { perror(...); exit(EXIT_FAILURE); }
MountPrivate(i) ==
    /\ cpc[i] = "mount_private"
    /\ \E ok \in BOOLEAN :
        /\ Called(i, "mount_private", ok)
        /\ IF ok
           THEN /\ shared' = [shared EXCEPT ![MntNs(i)] = FALSE]
                /\ Continue(i, "sethostname")
           ELSE /\ shared' = shared
                /\ Terminate(i, EXIT_FAILURE)
    /\ UNCHANGED launcherVars
    /\ UNCHANGED << cns, cenv, croot, ccwd, mounts, hostname >>

\* if (sethostname("mycontainer", 11) != 0) { perror(...); exit(EXIT_FAILURE); }
SetHostname(i) ==
    /\ cpc[i] = "sethostname"
    /\ \E ok \in BOOLEAN :
        /\ Called(i, "sethostname", ok)
        /\ IF ok
           THEN /\ hostname' = [hostname EXCEPT ![UtsNs(i)] = ContainerHostname]
                /\ Continue(i, "chroot")
           ELSE /\ hostname' = hostname
                /\ Terminate(i, EXIT_FAILURE)
    /\ UNCHANGED launcherVars
    /\ UNCHANGED << cns, cenv, croot, ccwd, mounts, shared >>

\* if (chroot("/tmp/mycontainer_root") != 0) { perror(...); exit(EXIT_FAILURE); }
\* chroot does not change the working directory
Chroot(i) ==
    /\ cpc[i] = "chroot"
    /\ \E ok \in BOOLEAN :
        /\ Called(i, "chroot", ok)
        /\ IF ok
           THEN /\ croot' = [croot EXCEPT ![i] = RootPath]
                /\ Continue(i, "chdir")
           ELSE /\ croot' = croot
                /\ Terminate(i, EXIT_FAILURE)
    /\ UNCHANGED launcherVars
    /\ UNCHANGED << cns, cenv, ccwd >>
    /\ UNCHANGED kernelVars

\* Variant of Chdir: the result of chdir is not checked
Chdir_Unchecked(i) ==
    /\ cpc[i] = "chdir"
    /\ \E ok \in BOOLEAN :
        /\ Called(i, "chdir", ok)
        /\ ccwd' = [ccwd EXCEPT ![i] = IF ok THEN croot[i] ELSE @]
        /\ Continue(i, "mount_proc")
    /\ UNCHANGED launcherVars
    /\ UNCHANGED << cns, cenv, croot >>
    /\ UNCHANGED kernelVars

\* if (chdir("/") != 0) { perror(...); exit(EXIT_FAILURE); }
\* "/" is resolved against the process's current root
Chdir(i) ==
    /\ cpc[i] = "chdir"
    /\ \E ok \in BOOLEAN :
        /\ Called(i, "chdir", ok)
        /\ IF ok
           THEN /\ ccwd' = [ccwd EXCEPT ![i] = croot[i]]
                /\ Continue(i, "mount_proc")
           ELSE /\ ccwd' = ccwd
                /\ Terminate(i, EXIT_FAILURE)
    /\ UNCHANGED launcherVars
    /\ UNCHANGED << cns, cenv, croot >>
    /\ UNCHANGED kernelVars

\* if (mount("proc", "/proc", "proc", 0, NULL) != 0)
\*     { perror(...); exit(EXIT_FAILURE); }
MountProc(i) ==
    /\ cpc[i] = "mount_proc"
    /\ \E ok \in BOOLEAN :
        /\ Called(i, "mount_proc", ok)
        /\ IF ok
           THEN /\ mounts' = DoMount(MntNs(i), ResolveProc(i))
                /\ Continue(i, "clearenv")
           ELSE /\ mounts' = mounts
                /\ Terminate(i, EXIT_FAILURE)
    /\ UNCHANGED launcherVars
    /\ UNCHANGED << cns, cenv, croot, ccwd, shared, hostname >>

\* Variant of Clearenv: the call is missing, the inherited environment stays
Clearenv_Missing(i) ==
    /\ cpc[i] = "clearenv"
    /\ Called(i, "clearenv", TRUE)
    /\ cenv' = cenv
    /\ Continue(i, "setenv_PATH")
    /\ UNCHANGED launcherVars
    /\ UNCHANGED << cns, croot, ccwd >>
    /\ UNCHANGED kernelVars

\* clearenv();  the result is not read; on Linux (glibc, musl) the call
\* always empties the environment and returns 0
Clearenv(i) ==
    /\ cpc[i] = "clearenv"
    /\ Called(i, "clearenv", TRUE)
    /\ cenv' = [cenv EXCEPT ![i] = {}]
    /\ Continue(i, "setenv_PATH")
    /\ UNCHANGED launcherVars
    /\ UNCHANGED << cns, croot, ccwd >>
    /\ UNCHANGED kernelVars

\* Variant of SetenvStep: perror without exit, child_func carries on
SetenvStep_NoExit(i, call, var, next) ==
    /\ cpc[i] = call
    /\ \E ok \in BOOLEAN :
        /\ Called(i, call, ok)
        /\ cenv' = [cenv EXCEPT ![i] = IF ok THEN Setenv(@, var) ELSE @]
        /\ Continue(i, next)
    /\ UNCHANGED launcherVars
    /\ UNCHANGED << cns, croot, ccwd >>
    /\ UNCHANGED kernelVars

\* if (setenv(name, value, 1) != 0) { perror(...); exit(EXIT_FAILURE); }
SetenvStep(i, call, var, next) ==
    /\ cpc[i] = call
    /\ \E ok \in BOOLEAN :
        /\ Called(i, call, ok)
        /\ IF ok
           THEN /\ cenv' = [cenv EXCEPT ![i] = Setenv(@, var)]
                /\ Continue(i, next)
           ELSE /\ cenv' = cenv
                /\ Terminate(i, EXIT_FAILURE)
    /\ UNCHANGED launcherVars
    /\ UNCHANGED << cns, croot, ccwd >>
    /\ UNCHANGED kernelVars

SetenvPath(i) == SetenvStep(i, "setenv_PATH", PathVar, "setenv_HOME")

SetenvHome(i) == SetenvStep(i, "setenv_HOME", HomeVar, "setenv_TERM")

SetenvTerm(i) == SetenvStep(i, "setenv_TERM", TermVar, "execv")

\* Variant of Execv: "return 0" after the failed execv
Execv_ReturnsZero(i) ==
    /\ cpc[i] = "execv"
    /\ \E ok \in BOOLEAN :
        /\ Called(i, "execv", ok)
        /\ IF ok
           THEN Continue(i, "workload")
           ELSE Terminate(i, 0)
    /\ UNCHANGED launcherVars
    /\ UNCHANGED << cns, cenv, croot, ccwd >>
    /\ UNCHANGED kernelVars

\* Variant of Execv: the return from execv is not treated as a failure, the
\* process carries on as if the workload had been started
Execv_IgnoresReturn(i) ==
    /\ cpc[i] = "execv"
    /\ \E ok \in BOOLEAN :
        /\ Called(i, "execv", ok)
        /\ Continue(i, "workload")
    /\ UNCHANGED launcherVars
    /\ UNCHANGED << cns, cenv, croot, ccwd >>
    /\ UNCHANGED kernelVars

\* execv(args[0], args);  on success the image is replaced by the workload,
\* which receives the current environment;
\* otherwise perror("execv failed"); return 1;
Execv(i) ==
    /\ cpc[i] = "execv"
    /\ \E ok \in BOOLEAN :
        /\ Called(i, "execv", ok)
        /\ IF ok
           THEN Continue(i, "workload")
           ELSE Terminate(i, ExecFailStatus)
    /\ UNCHANGED launcherVars
    /\ UNCHANGED << cns, cenv, croot, ccwd >>
    /\ UNCHANGED kernelVars

\* the workload (/bin/sh) exits with a status of its own
WorkloadExit(i) ==
    /\ cpc[i] = "workload"
    /\ \E s \in WorkloadStatuses : Terminate(i, s)
    /\ UNCHANGED launcherVars
    /\ UNCHANGED << calls, cns, cenv, croot, ccwd >>
    /\ UNCHANGED kernelVars

Next ==
    \E i \in Launchers :
        \/ Clone(i)
        \/ WaitpidOk(i)
        \/ WaitpidFail(i)
        \/ UmountProc(i)
        \/ UmountRoot(i)
        \/ MountPrivate(i)
        \/ SetHostname(i)
        \/ Chroot(i)
        \/ Chdir(i)
        \/ MountProc(i)
        \/ Clearenv(i)
        \/ SetenvPath(i)
        \/ SetenvHome(i)
        \/ SetenvTerm(i)
        \/ Execv(i)
        \/ WorkloadExit(i)

Spec == Init /\ [][Next]_vars

\* the steps of main of launch i
LauncherStep(i) ==
    \/ Clone(i)
    \/ WaitpidOk(i)
    \/ WaitpidFail(i)
    \/ UmountProc(i)
    \/ UmountRoot(i)

\* the steps of child_func of launch i, up to and including execv
BootstrapStep(i) ==
    \/ MountPrivate(i)
    \/ SetHostname(i)
    \/ Chroot(i)
    \/ Chdir(i)
    \/ MountProc(i)
    \/ Clearenv(i)
    \/ SetenvPath(i)
    \/ SetenvHome(i)
    \/ SetenvTerm(i)
    \/ Execv(i)

\* Fair scheduling: a process that can make its next call eventually makes
\* it (no call of main or child_func blocks except waitpid, which is enabled
\* only once the child has terminated).  Nothing is assumed of the workload:
\* /bin/sh may run forever.
FairSpec ==
    /\ Spec
    /\ \A i \in Launchers :
          /\ WF_vars(LauncherStep(i))
          /\ WF_vars(BootstrapStep(i))

(***************************************************************************)
(* Vocabulary of the properties.                                           *)
(***************************************************************************)
\* the names of the calls child_func has made, in the order it made them
CallsMade(i) == [k \in 1..Len(calls[i]) |-> calls[i][k].call]

IsPrefix(s, t) ==
    /\ Len(s) <= Len(t)
    /\ \A k \in 1..Len(s) : s[k] = t[k]

\* child_func has made the call / the call has returned success
Attempted(i, c) == \E k \in 1..Len(calls[i]) : calls[i][k].call = c
Succeeded(i, c) ==
    \E k \in 1..Len(calls[i]) : calls[i][k].call = c /\ calls[i][k].ok

\* the last call child_func made failed: the bootstrap aborted
Aborted(i) == Len(calls[i]) > 0 /\ ~ calls[i][Len(calls[i])].ok

\* the call at which the bootstrap aborted
FailedCall(i) == calls[i][Len(calls[i])].call

\* what the bootstrap steps have established for the isolated process
Effects(i) ==
    << croot[i], ccwd[i], cenv[i],
       hostname[UtsNs(i)], shared[MntNs(i)], mounts[MntNs(i)] >>

SpawnOk(i) == pid[i] = ChildPid(i)
SpawnFailed(i) == pid[i] = CloneFailed
WaitOk(i) == wres[i] = ChildPid(i)
WaitFail(i) == wres[i] = WaitFailed
LauncherDone(i) == lpc[i] = "done"

TypeOK ==
    /\ lpc \in [Launchers ->
                  {"clone", "waitpid", "umount_proc", "umount_root", "done"}]
    /\ lexit \in [Launchers -> {NoStatus, MainSuccess, EXIT_FAILURE}]
    /\ pid \in [Launchers -> {NoPid, CloneFailed} \cup Launchers]
    /\ wres \in [Launchers -> {NoPid, WaitFailed} \cup Launchers]
    /\ warned \in [Launchers -> BOOLEAN]
    /\ cstatus \in [Launchers -> {NoStatus} \cup WorkloadStatuses
                                   \cup {EXIT_FAILURE, ExecFailStatus}]
    /\ \A i \in Launchers : Len(calls[i]) <= Len(BootstrapCalls)

(***************************************************************************)
(* C1.  In every run of child_func the calls are attempted in exactly the  *)
(* order privatize-mount-propagation, set-hostname, chroot, chdir,         *)
(* mount-proc, environment reset (clearenv, then setenv PATH, HOME, TERM), *)
(* execv; a call is attempted only if every earlier call has succeeded;    *)
(* proc is mounted only with propagation private and the root switched,    *)
(* and execv is attempted only with the environment reset.                 *)
(***************************************************************************)
C1_BootstrapOrder ==
    \A i \in Launchers :
        /\ IsPrefix(CallsMade(i), BootstrapCalls)
        /\ \A k \in 1..(Len(calls[i]) - 1) : calls[i][k].ok
        /\ Attempted(i, "mount_proc") =>
              /\ ~ shared[MntNs(i)]
              /\ croot[i] = RootPath
              /\ ccwd[i] = RootPath
        /\ Attempted(i, "execv") =>
              /\ Succeeded(i, "mount_proc")
              /\ Succeeded(i, "clearenv")
              /\ Names(Allowlist) \subseteq Names(cenv[i])

\* a bootstrap that went through all ten calls and handed over to the workload
C1_Witness ==
    \E i \in Launchers :
        /\ cpc[i] = "workload"
        /\ CallsMade(i) = BootstrapCalls

(***************************************************************************)
(* C2.  If a bootstrap step fails, child_func terminates in that very step *)
(* with a non-zero status; afterwards it makes no further call (no later   *)
(* step, no retry), its status stays, and nothing the earlier steps        *)
(* established (root, working directory, environment, hostname, mount      *)
(* propagation, mounts) is changed.                                        *)
(***************************************************************************)
C2_FailFast ==
    [][\A i \in Launchers :
          /\ (calls'[i] # calls[i] /\ ~ calls'[i][Len(calls'[i])].ok) =>
                /\ cpc'[i] = "zombie"
                /\ cstatus'[i] \notin {NoStatus, 0}
                /\ Effects(i)' = Effects(i)
          /\ Aborted(i) =>
                /\ calls'[i] = calls[i]
                /\ cpc[i] \in {"zombie", "reaped"}
                /\ cpc'[i] \in {"zombie", "reaped"}
                /\ cstatus'[i] = cstatus[i]
                /\ Effects(i)' = Effects(i)
      ]_vars

\* a bootstrap that failed to mount proc, was reaped, and whose launcher is
\* done: root, working directory and hostname are still as steps 2-4 set them
C2_Witness ==
    \E i \in Launchers :
        /\ Aborted(i)
        /\ FailedCall(i) = "mount_proc"
        /\ cpc[i] = "reaped"
        /\ LauncherDone(i)
        /\ cstatus[i] = EXIT_FAILURE
        /\ croot[i] = RootPath
        /\ ccwd[i] = RootPath
        /\ hostname[UtsNs(i)] = ContainerHostname

C4_NoUnisolatedRun ==
    \A i \in Launchers :
        /\ (cpc[i] # "none" \/ calls[i] # << >>) =>
              /\ SpawnOk(i)
              /\ cns[i] = NamespaceFlags
              /\ MntNs(i) = i
              /\ UtsNs(i) = i
        /\ SpawnFailed(i) =>
              /\ cpc[i] = "none"
              /\ calls[i] = << >>
              /\ cns[i] = {}

\* one launch whose clone failed, next to one whose workload runs
C4_Witness ==
    \E i, j \in Launchers :
        /\ SpawnFailed(i)
        /\ LauncherDone(i)
        /\ cpc[j] = "workload"

(***************************************************************************)
(* C5.  If clone fails or waitpid fails, main terminates with a non-zero   *)
(* status; main waits only after a successful clone.                       *)
(***************************************************************************)
C5_LauncherErrors ==
    \A i \in Launchers :
        /\ (SpawnFailed(i) \/ WaitFail(i)) =>
              /\ LauncherDone(i)
              /\ lexit[i] \notin {NoStatus, 0}
        /\ (lpc[i] = "waitpid" \/ wres[i] # NoPid) => SpawnOk(i)
        /\ SpawnFailed(i) => wres[i] = NoPid

\* one launch whose clone failed, next to one whose waitpid failed
C5_Witness ==
    \E i, j \in Launchers :
        /\ SpawnFailed(i)
        /\ lexit[i] = EXIT_FAILURE
        /\ WaitFail(j)
        /\ lexit[j] = EXIT_FAILURE

(***************************************************************************)
(* C6.  Whenever clone succeeded, the workload ran and waitpid returned    *)
(* successfully, main exits with status 0, whatever status the workload    *)
(* exited with.                                                            *)
(***************************************************************************)
C6_WorkloadStatusNotPropagated ==
    \A i \in Launchers :
        (SpawnOk(i) /\ Succeeded(i, "execv") /\ WaitOk(i) /\ LauncherDone(i)) =>
            /\ cstatus[i] \in WorkloadStatuses
            /\ lexit[i] = MainSuccess

\* a workload that exited with the largest status, non-zero and different
\* from EXIT_FAILURE, and a launcher that has finished the cycle
C6_Witness ==
    \E i \in Launchers :
        /\ Succeeded(i, "execv")
        /\ WaitOk(i)
        /\ LauncherDone(i)
        /\ cstatus[i] = MaxStatus
        /\ cstatus[i] \notin {MainSuccess, EXIT_FAILURE}

(***************************************************************************)
(* C7.  The seven steps of the contract; the environment reset is one step *)
(* made of four calls.                                                     *)
(***************************************************************************)
StepOf(c) ==
    IF c \in {"clearenv", "setenv_PATH", "setenv_HOME", "setenv_TERM"}
    THEN "environment_reset"
    ELSE c

\* C7 as stated: two bootstraps that abort at different steps terminate with
\* different statuses, so that the status tells the failing step.
C7_Original_DistinctStatusPerStep ==
    \A i, j \in Launchers :
        (/\ Aborted(i)
         /\ Aborted(j)
         /\ StepOf(FailedCall(i)) # StepOf(FailedCall(j))) =>
            cstatus[i] # cstatus[j]

\* C7 as amended: a bootstrap that aborts terminates with a non-zero status,
\* and that status is the same, 1, whichever step failed (execv included).
C7_SameNonZeroStatus ==
    \A i \in Launchers :
        Aborted(i) =>
            /\ cstatus[i] = EXIT_FAILURE
            /\ cstatus[i] # 0
            /\ \A j \in Launchers : Aborted(j) => cstatus[j] = cstatus[i]

\* one bootstrap aborted at its first step, another at execv
C7_Witness ==
    \E i, j \in Launchers :
        /\ Aborted(i)
        /\ FailedCall(i) = "mount_private"
        /\ Aborted(j)
        /\ FailedCall(j) = "execv"

(***************************************************************************)
(* C8.  A launch whose execv failed, and the failure categories of main.   *)
(***************************************************************************)
ExecFailed(i) == Aborted(i) /\ FailedCall(i) = "execv"

\* C8 as stated: when execv fails (and nothing else does), main terminates
\* with a non-zero status, different from the status of a launch that failed
\* in another way (clone, waitpid, another bootstrap step).
C8_Original_ExecFailureVisible ==
    \A i \in Launchers :
        (ExecFailed(i) /\ WaitOk(i) /\ LauncherDone(i)) =>
            /\ lexit[i] # MainSuccess
            /\ \A j \in Launchers :
                  (/\ LauncherDone(j)
                   /\ ~ ExecFailed(j)
                   /\ (SpawnFailed(j) \/ WaitFail(j) \/ Aborted(j))) =>
                      lexit[j] # lexit[i]

\* C8 as amended: when execv fails, the isolated process terminates with
\* the non-zero status 1, which main never reads: main exits with 0 when
\* waitpid succeeded, as after a successful launch, and with 1 when waitpid
\* failed, as after a failed clone.
C8_ExecFailureNotPropagated ==
    \A i \in Launchers :
        ExecFailed(i) =>
            /\ cstatus[i] = ExecFailStatus
            /\ cstatus[i] # 0
            /\ LauncherDone(i) =>
                  /\ WaitOk(i) => lexit[i] = MainSuccess
                  /\ WaitFail(i) => lexit[i] = EXIT_FAILURE

\* execv failed, the launcher reaped the process, cleaned up and exited 0
C8_Witness ==
    \E i \in Launchers :
        /\ ExecFailed(i)
        /\ WaitOk(i)
        /\ LauncherDone(i)
        /\ umounts[i] # << >>
        /\ lexit[i] = MainSuccess

(***************************************************************************)
(* C9.  Cleanup and the ways main terminates.                              *)
(***************************************************************************)
\* the detached unmount of the proc mount point has been attempted
CleanupAttempted(i) ==
    /\ Len(umounts[i]) >= 1
    /\ umounts[i][1].path = ProcPath

\* C9 as stated: on every path to Done, a failed clone and a failed waitpid
\* included, the unmount of the proc mount point has been attempted.
C9_Original_CleanupAlways ==
    \A i \in Launchers : LauncherDone(i) => CleanupAttempted(i)

\* C9 as amended: the cleanup runs as main's final step exactly when clone
\* and waitpid both succeeded; then the unmount of the proc mount point has
\* been attempted before main terminates.  After a failed clone or a failed
\* waitpid main terminates without any unmount attempt.
C9_CleanupOnlyAfterWait ==
    \A i \in Launchers :
        /\ umounts[i] # << >> => (SpawnOk(i) /\ WaitOk(i))
        /\ LauncherDone(i) =>
              IF SpawnOk(i) /\ WaitOk(i)
              THEN CleanupAttempted(i)
              ELSE umounts[i] = << >>

\* one launcher done after a failed waitpid without any unmount attempt, next
\* to one that is done after its cleanup
C9_Witness ==
    \E i, j \in Launchers :
        /\ LauncherDone(i)
        /\ WaitFail(i)
        /\ umounts[i] = << >>
        /\ LauncherDone(j)
        /\ WaitOk(j)
        /\ CleanupAttempted(j)

(***************************************************************************)
(* C10.  Once clone and waitpid have succeeded, main goes on to Done and   *)
(* exits with status 0 for every combination of outcomes of the two        *)
(* unmount attempts: no outcome of the cleanup stops main or changes its   *)
(* exit status.                                                            *)
(***************************************************************************)
UmountOutcomes ==
    { << [path |-> ProcPath, ok |-> TRUE] >>,
      << [path |-> ProcPath, ok |-> FALSE], [path |-> RootPath, ok |-> TRUE] >>,
      << [path |-> ProcPath, ok |-> FALSE], [path |-> RootPath, ok |-> FALSE] >> }

C10_CleanupNeverEscalates ==
    \A i \in Launchers :
        WaitOk(i) =>
            /\ lexit[i] \in {NoStatus, MainSuccess}
            /\ LauncherDone(i) =>
                  /\ lexit[i] = MainSuccess
                  /\ umounts[i] \in UmountOutcomes
            /\ ~ LauncherDone(i) =>
                  /\ lpc[i] \in {"umount_proc", "umount_root"}
                  /\ ENABLED (UmountProc(i) \/ UmountRoot(i))

\* two finished launches: for one the proc unmount failed and the root
\* unmount succeeded, for the other both failed and the warning was printed
C10_Witness ==
    \E i, j \in Launchers :
        /\ LauncherDone(i)
        /\ umounts[i] = << [path |-> ProcPath, ok |-> FALSE],
                           [path |-> RootPath, ok |-> TRUE] >>
        /\ lexit[i] = MainSuccess
        /\ LauncherDone(j)
        /\ umounts[j] = << [path |-> ProcPath, ok |-> FALSE],
                           [path |-> RootPath, ok |-> FALSE] >>
        /\ warned[j]
        /\ lexit[j] = MainSuccess

(***************************************************************************)
(* C11.  The host's mount table during a launch.                           *)
(***************************************************************************)
\* main has gone through its cleanup
CleanupDone(i) == LauncherDone(i) /\ WaitOk(i)

\* C11 as stated: the proc mount of the bootstrap never shows on the host;
\* in every reachable state the host's mount table is the same as before
\* the launch, and after the cleanup no proc mount is left on the host.
C11_Original_HostTableUnchanged ==
    [][/\ mounts'[HostNs] = mounts[HostNs]
       /\ \A i \in Launchers :
             CleanupDone(i)' => ProcPath \notin mounts'[HostNs]
      ]_vars

\* C11, the part the code keeps: no step of a launch ever adds a mount to
\* the host's mount table, so the proc mount of the bootstrap never shows
\* there; the table changes only by the cleanup of main detaching what the
\* host itself had mounted at the proc mount point or at the root path; after
\* the cleanup no proc mount is left on the host, also when execv failed.
C11_HostNeverGainsMount ==
    [][/\ mounts'[HostNs] \subseteq mounts[HostNs]
       /\ mounts'[HostNs] # mounts[HostNs] =>
             \E i \in Launchers :
                /\ Len(umounts'[i]) = Len(umounts[i]) + 1
                /\ umounts'[i][Len(umounts'[i])].ok
                /\ mounts[HostNs] \ mounts'[HostNs] =
                      mounts[HostNs] \cap
                          Below(umounts'[i][Len(umounts'[i])].path)
       /\ \A i \in Launchers :
             CleanupDone(i)' => ProcPath \notin mounts'[HostNs]
      ]_vars

\* execv failed after proc was mounted in the namespace of the isolated
\* process; the host never saw that mount, but the cleanup of main has
\* detached the root image the host had mounted at RootPath
C11_Witness ==
    \E i \in Launchers :
        /\ ExecFailed(i)
        /\ CleanupDone(i)
        /\ ProcPath \in mounts[i]
        /\ ProcPath \notin mounts[HostNs]
        /\ Len(umounts[i]) = 2
        /\ ~ umounts[i][1].ok
        /\ umounts[i][2].ok
        /\ RootPath \notin mounts[HostNs]

(***************************************************************************)
(* C12.  The cleanup on a target that is already unmounted.                *)
(***************************************************************************)
\* nothing is mounted on the host at either path the cleanup names
TargetUnmounted == mounts[HostNs] \cap {ProcPath, RootPath} = {}

\* main of launch i makes one of its two umount2 calls in this step
CleanupStep(i) ==
    /\ lpc[i] \in {"umount_proc", "umount_root"}
    /\ lpc'[i] # lpc[i]

\* C12: a cleanup that finds its target already unmounted (as the cleanup of
\* a second launch does after the first one's) fails both umount2 calls,
\* reports the warning and nothing else, leaves every mount table as it was
\* and ends main with "return 0" all the same.
C12_CleanupIdempotent ==
    [][\A i \in Launchers :
          (TargetUnmounted /\ CleanupStep(i)) =>
              /\ mounts' = mounts
              /\ shared' = shared
              /\ TargetUnmounted'
              /\ ~ umounts'[i][Len(umounts'[i])].ok
              /\ lpc[i] = "umount_proc" =>
                    /\ lpc'[i] = "umount_root"
                    /\ lexit'[i] = NoStatus
                    /\ ~ warned'[i]
              /\ lpc[i] = "umount_root" =>
                    /\ lpc'[i] = "done"
                    /\ lexit'[i] = MainSuccess
                    /\ warned'[i]
      ]_vars

\* both launches have run their cleanup on an unmounted target: a warning
\* each time, status 0 each time
C12_Witness ==
    /\ TargetUnmounted
    /\ \A i \in Launchers :
          /\ CleanupDone(i)
          /\ Len(umounts[i]) = 2
          /\ ~ umounts[i][1].ok /\ ~ umounts[i][2].ok
          /\ warned[i]
          /\ lexit[i] = MainSuccess

(***************************************************************************)
(* C13.  Two launches side by side.                                        *)
(***************************************************************************)
\* the step is one of launch j: of its main or of its isolated process
Stepped(j) == lpc'[j] # lpc[j] \/ cpc'[j] # cpc[j]

\* C13 as stated: under every interleaving, no step of one launch (its
\* host-side umount2 calls included) changes the hostname, the mount set,
\* the root binding or the outcome of the other launch.
C13_Original_NoInterference ==
    [][\A j \in Launchers :
          ~ Stepped(j) =>
              /\ hostname'[j] = hostname[j]
              /\ mounts'[j] = mounts[j]
              /\ croot'[j] = croot[j]
              /\ cstatus'[j] = cstatus[j]
              /\ lexit'[j] = lexit[j]
      ]_vars

\* C13, the part the code keeps: the steps of the other launch never change
\* the hostname, root binding or exit statuses of launch j, and they no longer
\* change its mount set once its child_func has made its tree private.
C13_IsolatedOncePrivate ==
    [][\A j \in Launchers :
          ~ Stepped(j) =>
              /\ hostname'[j] = hostname[j]
              /\ croot'[j] = croot[j]
              /\ cstatus'[j] = cstatus[j]
              /\ lexit'[j] = lexit[j]
              /\ (Succeeded(j, "mount_private") \/ ~ Alive(j)) =>
                     mounts'[j] = mounts[j]
      ]_vars

\* main of launch i is about to detach the host's mount at RootPath while
\* the isolated process of launch j still shares the host's peer group
C13_Witness ==
    \E i, j \in Launchers :
        /\ i # j
        /\ lpc[i] = "umount_root"
        /\ cpc[j] = "mount_private"
        /\ shared[HostNs] /\ shared[j]
        /\ RootPath \in mounts[HostNs]
        /\ RootPath \in mounts[j]

(***************************************************************************)
(* C14.  main resumes only after the isolated process has exited.          *)
(***************************************************************************)
\* C14: no umount2 call is made or about to be made, and main has not
\* returned 0, unless the isolated process has terminated and been reaped;
\* while the process runs, main sits in waitpid and the call cannot return,
\* with success or with failure: there is no timeout and no cancellation.
C14_ResumeOnlyAfterExit ==
    \A i \in Launchers :
        /\ (\/ umounts[i] # << >>
            \/ lpc[i] \in {"umount_proc", "umount_root"}
            \/ lexit[i] = MainSuccess)
              => cpc[i] = "reaped"
        /\ Alive(i) =>
              /\ lpc[i] = "waitpid"
              /\ lexit[i] = NoStatus
              /\ ~ ENABLED (WaitpidOk(i) \/ WaitpidFail(i))

\* the workload has run and exited, and only then main has made both umount2
\* calls and returned 0
C14_Witness ==
    \E i \in Launchers :
        /\ Succeeded(i, "execv")
        /\ cpc[i] = "reaped"
        /\ Len(umounts[i]) = 2
        /\ lexit[i] = MainSuccess

(***************************************************************************)
(* C15.  The two outcomes of child_func.                                   *)
(***************************************************************************)
\* the isolated process has terminated
Terminated(i) == cpc[i] \in {"zombie", "reaped"}

\* C15: child_func runs once per successful clone (no call of it is made
\* twice, none without a clone) and ends in one of two ways: execv replaced
\* the image by the workload, or the process terminated with a non-zero
\* status at a failed call.  It never terminates with status 0 without the
\* image replaced, and an execv that returned is a failure: the process
\* terminates non-zero in that step and no workload runs.
C15_TwoOutcomes ==
    \A i \in Launchers :
        /\ IsPrefix(CallsMade(i), BootstrapCalls)
        /\ cpc[i] = "none" <=> ~ SpawnOk(i)
        /\ ~ SpawnOk(i) => calls[i] = << >>
        /\ cpc[i] = "workload" => Succeeded(i, "execv")
        /\ Succeeded(i, "execv") => ~ Aborted(i)
        /\ (Terminated(i) /\ ~ Succeeded(i, "execv")) =>
              /\ Aborted(i)
              /\ cstatus[i] \notin {0, NoStatus}
        /\ (Attempted(i, "execv") /\ ~ Succeeded(i, "execv")) =>
              /\ Terminated(i)
              /\ ExecFailed(i)
              /\ cstatus[i] = ExecFailStatus
              /\ cstatus[i] # 0

\* both outcomes side by side: in one launch execv returned and the process
\* terminated with status 1, in the other the image was replaced and the
\* workload itself exited with status 0
C15_Witness ==
    \E i, j \in Launchers :
        /\ ExecFailed(i) /\ Terminated(i) /\ cstatus[i] = ExecFailStatus
        /\ Succeeded(j, "execv") /\ Terminated(j) /\ cstatus[j] = 0

(***************************************************************************)
(* C16.  Termination.                                                      *)
(***************************************************************************)
\* C16: under fair scheduling every launch either ends with main exited
\* (after a failed clone, a failed call of child_func, or the exit of the
\* workload), or its workload runs forever and main stays in waitpid forever;
\* so a launch whose workload terminates of its own accord always reaches
\* the end of main.
C16_Termination ==
    \A i \in Launchers :
        \/ <>[](LauncherDone(i) /\ lexit[i] # NoStatus)
        \/ <>[](cpc[i] = "workload" /\ lpc[i] = "waitpid" /\ lexit[i] = NoStatus)

\* main has exited after the workload ran and exited
C16_Witness ==
    \E i \in Launchers :
        /\ LauncherDone(i)
        /\ Succeeded(i, "execv")
        /\ Terminated(i)
        /\ lexit[i] = MainSuccess

(***************************************************************************)
(* C17.  The hostname.                                                     *)
(***************************************************************************)
\* C17: the host's hostname is never changed; sethostname is called only by
\* a process that clone has placed in a UTS namespace of its own, and what
\* it sets shows in that namespace only.
C17_HostnameIsolated ==
    /\ hostname[HostNs] = HostHostname
    /\ \A i \in Launchers :
          /\ Attempted(i, "sethostname") =>
                /\ SpawnOk(i)
                /\ "CLONE_NEWUTS" \in cns[i]
                /\ UtsNs(i) = i
                /\ UtsNs(i) # HostNs
          /\ Succeeded(i, "sethostname") <=> hostname[i] = ContainerHostname
          /\ (SpawnOk(i) /\ ~ Succeeded(i, "sethostname")) =>
                hostname[UtsNs(i)] = HostHostname

\* one isolated process has set its hostname while the host and the
\* isolated process of the other launch still have the host's
C17_Witness ==
    \E i, j \in Launchers :
        /\ Succeeded(i, "sethostname")
        /\ hostname[UtsNs(i)] = ContainerHostname
        /\ Alive(j)
        /\ hostname[UtsNs(j)] = HostHostname
        /\ hostname[HostNs] = HostHostname

(***************************************************************************)
(* C18.  Which umount2 calls are made, and when the warning is reported.   *)
(***************************************************************************)
\* C18: once main has ended its cleanup, the root unmount was attempted
\* exactly when the proc unmount had failed, and the warning was reported
\* exactly when both had failed; after a failed proc unmount and a
\* successful root unmount nothing is reported.  No warning is reported
\* before the cleanup has ended.
C18_CleanupLogic ==
    \A i \in Launchers :
        /\ CleanupDone(i) =>
              /\ Len(umounts[i]) \in {1, 2}
              /\ umounts[i][1].path = ProcPath
              /\ Len(umounts[i]) = 2 <=> ~ umounts[i][1].ok
              /\ Len(umounts[i]) = 2 => umounts[i][2].path = RootPath
              /\ warned[i] <=>
                    /\ Len(umounts[i]) = 2
                    /\ ~ umounts[i][1].ok
                    /\ ~ umounts[i][2].ok
        /\ ~ CleanupDone(i) =>
              /\ ~ warned[i]
              /\ \A k \in 1..Len(umounts[i]) :
                    umounts[i][k].path = ProcPath /\ ~ umounts[i][k].ok
              /\ Len(umounts[i]) <= 1
              /\ Len(umounts[i]) = 1 <=> lpc[i] = "umount_root"

\* the three outcomes in two launches: the proc unmount failed and the root
\* unmount succeeded with nothing reported, in the other launch both failed
\* and the warning was reported
C18_Witness ==
    \E i, j \in Launchers :
        /\ CleanupDone(i) /\ CleanupDone(j)
        /\ ~ umounts[i][1].ok /\ Len(umounts[i]) = 2 /\ umounts[i][2].ok
        /\ ~ warned[i]
        /\ ~ umounts[j][1].ok /\ Len(umounts[j]) = 2 /\ ~ umounts[j][2].ok
        /\ warned[j]

(***************************************************************************)
(* C19.  What the exit of main says about the isolated process.            *)
(***************************************************************************)
\* the isolated process has terminated and main's waitpid call has returned
\* its pid
ReapedByWait(i) ==
    /\ cpc[i] = "reaped"
    /\ cstatus[i] # NoStatus
    /\ WaitOk(i)

==========================================================================
